---------------------------- MODULE Spec2Model ----------------------------
(***************************************************************************)
(* Maturity assessment lambda functions (mpasindu/maturity):               *)
(*   src/lambda-functions/calculate_score.py          CalculateScores      *)
(*   src/lambda-functions/get_assessment_context.py   GetSessionContext    *)
(*   src/lambda-functions/get_metric_details.py       GetMetricDetails     *)
(*                                                                         *)
(* Python floats are modelled as exact rationals [n |-> _, d |-> _] in     *)
(* lowest terms.  round(x, k) is modelled as round-half-to-even on the     *)
(* rational; a tie can only be met by a float that is a dyadic rational,   *)
(* for which Python's round() is half-to-even as well.                     *)
(***************************************************************************)
EXTENDS Integers, Sequences, FiniteSets, TLC

(***************************************************************************)
(* Bounds of the model.                                                    *)
(***************************************************************************)
\* longest list handed to an aggregator in the calculator specification
MaxLen == 3
\* largest weight of a list item in the calculator specification
MaxWeight == 2
\* largest score handed to the classifier, in hundredths
MaxScoreHundredths == 600
\* number of answers the answering workflow records in one behaviour
MaxWrites == 1

(***************************************************************************)
(* Rational arithmetic standing for Python's float arithmetic.             *)
(***************************************************************************)
RECURSIVE GCD(_, _)
GCD(a, b) == IF b = 0 THEN a ELSE GCD(b, a % b)

Abs(x) == IF x < 0 THEN -x ELSE x

\* the rational n/d (d # 0) in lowest terms with a positive denominator
Rat(n, d) ==
    LET g == GCD(Abs(n), Abs(d))
        s == IF d < 0 THEN -1 ELSE 1
    IN  [n |-> (s * n) \div g, d |-> (s * d) \div g]

\* float(i) of an integer
Float(i) == [n |-> i, d |-> 1]

\* the value a division by zero leaves behind: Python raises ZeroDivisionError
ZeroDivisionError == [n |-> 0, d |-> 0]

RAdd(a, b) == Rat(a.n * b.d + b.n * a.d, a.d * b.d)
RMul(a, b) == Rat(a.n * b.n, a.d * b.d)
\* a / b
RDiv(a, b) == IF b.n = 0 THEN ZeroDivisionError ELSE Rat(a.n * b.d, a.d * b.n)
RLt(a, b) == a.n * b.d < b.n * a.d
RLe(a, b) == a.n * b.d <= b.n * a.d

RECURSIVE Pow10(_)
Pow10(k) == IF k = 0 THEN 1 ELSE 10 * Pow10(k - 1)

\* round(x, k) for x >= 0: the nearest multiple of 10^-k, ties to even
Round(x, k) ==
    LET num == x.n * Pow10(k)
        q   == num \div x.d
        r2  == 2 * (num % x.d)
        up  == \/ r2 > x.d
               \/ r2 = x.d /\ q % 2 = 1
    IN  Rat(IF up THEN q + 1 ELSE q, Pow10(k))

\* sum(f(item) for item in seq), f given as the sequence of its values
RECURSIVE RSum(_)
RSum(vals) == IF vals = <<>> THEN Float(0) ELSE RAdd(Head(vals), RSum(Tail(vals)))

(***************************************************************************)
(* class MaturityCalculator                                                *)
(***************************************************************************)
\* the dict MATURITY_LEVELS in insertion order: (min_score, max_score) -> level
MATURITY_LEVELS ==
    << [min_score |-> Rat(0, 10),  max_score |-> Rat(15, 10), level |-> "INITIAL"],
       [min_score |-> Rat(15, 10), max_score |-> Rat(25, 10), level |-> "MANAGED"],
       [min_score |-> Rat(25, 10), max_score |-> Rat(35, 10), level |-> "DEFINED"],
       [min_score |-> Rat(35, 10), max_score |-> Rat(50, 10), level |-> "OPTIMIZING"] >>

\* a slip in the interval test: lower bound exclusive, upper bound inclusive
InIntervalUpperInclusive(e, score) == RLt(e.min_score, score) /\ RLe(score, e.max_score)

\* one iteration test of the loop: min_score <= score < max_score
InInterval(e, score) == RLe(e.min_score, score) /\ RLt(score, e.max_score)

RECURSIVE LevelFrom(_, _)
LevelFrom(i, score) ==
    IF i > Len(MATURITY_LEVELS) THEN "OPTIMIZING"
    ELSE IF InInterval(MATURITY_LEVELS[i], score) THEN MATURITY_LEVELS[i].level
    ELSE LevelFrom(i + 1, score)

get_maturity_level(score) == LevelFrom(1, score)

calculate_metric_score(metric_value, metric_level) == Float(metric_level)

\* the values of a field expression over a list
Scores(items) == [i \in 1..Len(items) |-> items[i].score]
Weights(items) == [i \in 1..Len(items) |-> items[i].weight]
WeightedScores(items) == [i \in 1..Len(items) |-> RMul(items[i].score, items[i].weight)]

\* a slip in the topic rollup: the mean weighted by the metric weights
calculate_topic_score_weighted(metric_scores) ==
    IF metric_scores = <<>> THEN Float(0)
    ELSE LET total_weight == RSum(Weights(metric_scores))
         IN  IF RLt(Float(0), total_weight)
             THEN RDiv(RSum(WeightedScores(metric_scores)), total_weight)
             ELSE Float(0)

calculate_topic_score(metric_scores) ==
    IF metric_scores = <<>> THEN Float(0)
    ELSE RDiv(RSum(Scores(metric_scores)), Float(Len(metric_scores)))

\* a slip in the pillar rollup: the division without the total_weight > 0 guard
calculate_pillar_score_unguarded(topic_scores) ==
    IF topic_scores = <<>> THEN Float(0)
    ELSE RDiv(RSum(WeightedScores(topic_scores)), RSum(Weights(topic_scores)))

calculate_pillar_score(topic_scores) ==
    IF topic_scores = <<>> THEN Float(0)
    ELSE LET weighted_sum == RSum(WeightedScores(topic_scores))
             total_weight == RSum(Weights(topic_scores))
         IN  IF RLt(Float(0), total_weight) THEN RDiv(weighted_sum, total_weight)
             ELSE Float(0)

\* a slip in the overall rollup: the weighted sum is not divided by the weights
calculate_overall_score_sum(pillar_scores) ==
    IF pillar_scores = <<>> THEN Float(0)
    ELSE RSum(WeightedScores(pillar_scores))

calculate_overall_score(pillar_scores) ==
    IF pillar_scores = <<>> THEN Float(0)
    ELSE LET weighted_sum == RSum(WeightedScores(pillar_scores))
             total_weight == RSum(Weights(pillar_scores))
         IN  IF RLt(Float(0), total_weight) THEN RDiv(weighted_sum, total_weight)
             ELSE Float(0)

(***************************************************************************)
(* The database behind the RDS Data API.  The hierarchy is a strict tree:  *)
(* every metric in one topic, every topic in one pillar.  Names sort as    *)
(* the identifiers do, so ORDER BY p.name, t.name, m.name is the order of  *)
(* MetricOrder.                                                            *)
(***************************************************************************)
Metrics == {"m1", "m2", "m3", "m4"}
Topics == {"t1", "t2", "t3"}
Pillars == {"p1", "p2"}
MetricOrder == <<"m1", "m2", "m3", "m4">>
PillarOrder == <<"p1", "p2">>

\* metrics.topic_id and assessment_topics.pillar_id
TopicOf == [m \in Metrics |-> CASE m = "m1" -> "t1" [] m = "m2" -> "t1"
                                 [] m = "m3" -> "t2" [] OTHER -> "t3"]
PillarOf == [t \in Topics |-> IF t = "t3" THEN "p2" ELSE "p1"]

\* metrics.level
LevelOf == [m \in Metrics |-> CASE m = "m1" -> 4 [] m = "m2" -> 3
                                 [] m = "m3" -> 2 [] OTHER -> 4]

\* the stored session and an identifier that matches no session
StoredSession == "s1"
UnknownSession == "s9"

\* the value of the answers stored at the start, the value the answering workflow
\* records, and the value of a what-if answer
StoredValues == {1}
Values == {5}
OverrideValues == {3}

\* the tables metrics / assessment_topics / maturity_pillars: one record per
\* choice of the active flags and the weights
Catalog(active, mweight, tweight, pweight) ==
    [metrics  |-> [m \in Metrics |-> [topic_id |-> TopicOf[m], level |-> LevelOf[m],
                                      weight |-> mweight[m], active |-> m \in active]],
     topics   |-> [t \in Topics |-> [pillar_id |-> PillarOf[t], weight |-> tweight[t]]],
     pillars  |-> [p \in Pillars |-> [weight |-> pweight[p], is_active |-> TRUE]]]

UnitWeights(S) == [x \in S |-> 1]
ZeroWeights(S) == [x \in S |-> 0]
BaseTopicWeights == [t \in Topics |-> IF t = "t1" THEN 2 ELSE 1]
BasePillarWeights == [p \in Pillars |-> IF p = "p1" THEN 3 ELSE 1]

\* a catalog at the ends of the scale: m3 of level 1, m4 of level 5, topic t1 and
\* pillar p1 of weight 0
ExtremeCatalog ==
    [Catalog(Metrics, UnitWeights(Metrics),
             [t \in Topics |-> IF t = "t1" THEN 0 ELSE 1],
             [q \in Pillars |-> IF q = "p1" THEN 0 ELSE 2])
        EXCEPT !.metrics["m3"].level = 1, !.metrics["m4"].level = 5]

\* every metric active; m4 deactivated; no metric active and every topic weight 0;
\* the ends of the scale
Catalogs ==
    { Catalog(Metrics, UnitWeights(Metrics), BaseTopicWeights, BasePillarWeights),
      Catalog(Metrics \ {"m4"}, [m \in Metrics |-> IF m = "m1" THEN 2 ELSE 1],
              BaseTopicWeights, BasePillarWeights),
      Catalog({}, UnitWeights(Metrics), ZeroWeights(Topics), BasePillarWeights),
      ExtremeCatalog }

\* a row of assessment_results
AnswerRow(sid, m, v, at) ==
    [session_id |-> sid, metric_id |-> m, value |-> v, assessed_at |-> at]

\* assessed_at of an answer stored before the model starts: m1 the latest
InitialTime(m) == 0 - (CHOOSE i \in 1..Len(MetricOrder) : MetricOrder[i] = m)

\* the answers a session may hold when the model starts
InitialAnswers ==
    { {AnswerRow(StoredSession, m, v, InitialTime(m)) : m \in S} :
        S \in {{}, {"m1", "m3", "m4"}}, v \in StoredValues }

VARIABLES
    catalog,             \* metrics, assessment_topics, maturity_pillars
    assessment_results,  \* the table assessment_results
    clock,               \* number of answers recorded so far
    pc,                  \* per caller: position of its invocation
    event,               \* per caller: the event handed to lambda_handler
    local,               \* per caller: the local variables of the running handler
    response,            \* per caller: what lambda_handler returned
    trace,               \* per caller: what the invocation did (history)
    fn, score, items, out  \* the calculator specification: function, inputs, output

vars == <<catalog, assessment_results, clock, pc, event, local, response, trace,
          fn, score, items, out>>
svars == <<catalog, assessment_results, clock, pc, event, local, response, trace>>
cvars == <<fn, score, items, out>>

(***************************************************************************)
(* calculate_score.py: get_assessment_results and calculate_scores         *)
(***************************************************************************)
\* the row of the join for one answer (id and the name columns left out)
ResultRow(cat, ar) ==
    LET m == ar.metric_id
        t == cat.metrics[m].topic_id
        p == cat.topics[t].pillar_id
    IN  [metric_id |-> m, value |-> Float(ar.value),
         metric_level |-> cat.metrics[m].level,
         metric_weight |-> Float(cat.metrics[m].weight),
         topic_id |-> t, topic_weight |-> Float(cat.topics[t].weight),
         pillar_id |-> p, pillar_weight |-> Float(cat.pillars[p].weight)]

\* the records of the query of get_assessment_results, from the i-th metric on
RECURSIVE ResultRowsFrom(_, _, _, _)
ResultRowsFrom(cat, answers, session_id, i) ==
    IF i > Len(MetricOrder) THEN <<>>
    ELSE LET hit == {ar \in answers : ar.session_id = session_id
                                      /\ ar.metric_id = MetricOrder[i]}
             rest == ResultRowsFrom(cat, answers, session_id, i + 1)
         IN  IF hit = {} THEN rest
             ELSE <<ResultRow(cat, CHOOSE ar \in hit : TRUE)>> \o rest

\* get_assessment_results: the rows, or [] when the query raised
get_assessment_results(cat, answers, session_id, ok) ==
    IF ok THEN ResultRowsFrom(cat, answers, session_id, 1) ELSE <<>>

\* the keys of a dict filled in this order: first occurrences, in order
RECURSIVE Distinct(_)
Distinct(seq) ==
    IF seq = <<>> THEN <<>>
    ELSE LET init == Distinct(SubSeq(seq, 1, Len(seq) - 1))
             last == seq[Len(seq)]
         IN  IF \E i \in 1..Len(init) : init[i] = last THEN init ELSE Append(init, last)

PillarIds(results) == Distinct([i \in 1..Len(results) |-> results[i].pillar_id])

TopicRows(results, pillar_id) == SelectSeq(results, LAMBDA r : r.pillar_id = pillar_id)

TopicIds(results, pillar_id) ==
    LET rows == TopicRows(results, pillar_id)
    IN  Distinct([i \in 1..Len(rows) |-> rows[i].topic_id])

\* pillar_data[pillar_id]['topics'][topic_id]['metrics']
TopicMetrics(results, topic_id) ==
    LET rows == SelectSeq(results, LAMBDA r : r.topic_id = topic_id)
    IN  [i \in 1..Len(rows) |->
            [id |-> rows[i].metric_id,
             score |-> calculate_metric_score(rows[i].value, rows[i].metric_level),
             weight |-> rows[i].metric_weight]]

\* the weights the first row of a topic / of a pillar carries
TopicWeight(results, topic_id) ==
    SelectSeq(results, LAMBDA r : r.topic_id = topic_id)[1].topic_weight
PillarWeight(results, pillar_id) ==
    SelectSeq(results, LAMBDA r : r.pillar_id = pillar_id)[1].pillar_weight

\* pillar_data[pillar_id]['topics'][topic_id] after the topic loop: 'score' unrounded
TopicData(results, topic_id) ==
    LET metrics == TopicMetrics(results, topic_id)
    IN  [id |-> topic_id,
         weight |-> TopicWeight(results, topic_id),
         score |-> calculate_topic_score(metrics),
         metric_count |-> Len(metrics)]

\* the entry appended to topic_scores: 'score' rounded to 2 decimals
TopicScoreEntry(results, topic_id) ==
    LET topic == TopicData(results, topic_id)
    IN  [id |-> topic.id, score |-> Round(topic.score, 2), weight |-> topic.weight,
         metric_count |-> topic.metric_count]

RECURSIVE Concat(_)
Concat(seqs) == IF seqs = <<>> THEN <<>> ELSE Head(seqs) \o Concat(Tail(seqs))

TopicScores(results) ==
    LET pids == PillarIds(results)
    IN  Concat([i \in 1..Len(pids) |->
                  LET tids == TopicIds(results, pids[i])
                  IN  [j \in 1..Len(tids) |-> TopicScoreEntry(results, tids[j])]])

\* topics_list of one pillar: the unrounded topic scores and the topic weights
TopicsList(results, pillar_id) ==
    LET tids == TopicIds(results, pillar_id)
    IN  [j \in 1..Len(tids) |->
            [score |-> TopicData(results, tids[j]).score,
             weight |-> TopicData(results, tids[j]).weight]]

\* the entry appended to pillar_scores: 'score' rounded to 2 decimals
PillarScoreEntry(results, pillar_id) ==
    LET topics_list == TopicsList(results, pillar_id)
    IN  [id |-> pillar_id,
         score |-> Round(calculate_pillar_score(topics_list), 2),
         weight |-> PillarWeight(results, pillar_id),
         topic_count |-> Len(topics_list)]

PillarScores(results) ==
    LET pids == PillarIds(results)
    IN  [i \in 1..Len(pids) |-> PillarScoreEntry(results, pids[i])]

\* SELECT COUNT(*) FROM metrics WHERE active = true
CountActiveMetrics(cat) == Cardinality({m \in Metrics : cat.metrics[m].active})

\* the 'statistics' of the report of a session with results
Statistics(results, total_metrics) ==
    LET answered_metrics == Len(results)
        completion_percentage ==
            IF total_metrics > 0
            THEN RMul(RDiv(Float(answered_metrics), Float(total_metrics)), Float(100))
            ELSE Float(0)
    IN  [total_metrics |-> total_metrics,
         answered_metrics |-> answered_metrics,
         completion_percentage |-> Round(completion_percentage, 1)]

\* a slip in the early return: the level of the classifier's fall-through
EmptyReportDefaultLevel(session_id) ==
    [session_id |-> session_id,
     overall_score |-> Float(0),
     maturity_level |-> "OPTIMIZING",
     pillar_scores |-> <<>>,
     topic_scores |-> <<>>,
     statistics |-> [total_metrics |-> 0, answered_metrics |-> 0,
                     completion_percentage |-> Float(0)]]

\* the dict returned when the session has no results
EmptyReport(session_id) ==
    [session_id |-> session_id,
     overall_score |-> Float(0),
     maturity_level |-> "INITIAL",
     pillar_scores |-> <<>>,
     topic_scores |-> <<>>,
     statistics |-> [total_metrics |-> 0, answered_metrics |-> 0,
                     completion_percentage |-> Float(0)]]

\* the local variables of calculate_scores before the statistics query
Aggregates(results) ==
    LET pillar_scores == PillarScores(results)
        overall_score == calculate_overall_score(pillar_scores)
    IN  [results |-> results,
         topic_scores |-> TopicScores(results),
         pillar_scores |-> pillar_scores,
         overall_score |-> overall_score,
         maturity_level |-> get_maturity_level(overall_score)]

\* the dict returned for a session with results
ScoreReport(session_id, agg, total_metrics) ==
    [session_id |-> session_id,
     overall_score |-> Round(agg.overall_score, 2),
     maturity_level |-> agg.maturity_level,
     pillar_scores |-> agg.pillar_scores,
     topic_scores |-> agg.topic_scores,
     statistics |-> Statistics(agg.results, total_metrics)]

(***************************************************************************)
(* Events and responses of the Bedrock Agent action groups.                *)
(***************************************************************************)
Callers == {"c1", "c2"}

\* Python's None
None == "<None>"

\* a slip in the parameter check: "is None" in place of "not"
FalsyNoneOnly(x) == x = None

\* the test "not x" on a parameter value
Falsy(x) == x = None \/ x = ""

Param(name, value) == [name |-> name, value |-> value]

\* the loop over event['parameters']: the value of the first entry called name
RECURSIVE ParamValueFrom(_, _, _)
ParamValueFrom(parameters, name, i) ==
    IF i > Len(parameters) THEN None
    ELSE IF parameters[i].name = name THEN parameters[i].value
    ELSE ParamValueFrom(parameters, name, i + 1)

ParamValue(parameters, name) == ParamValueFrom(parameters, name, 1)

\* what-if answers a caller may put in the event: [] or one {metricId, value}
OverrideSamples ==
    {<<>>} \cup {<<[metricId |-> m, value |-> v]>> : m \in {"m2"}, v \in OverrideValues}

SessionParameters ==
    {<<>>} \cup {<<Param("sessionId", v)>> : v \in {"", StoredSession, UnknownSession}}

CalculateScoreEvents ==
    {[handler |-> "calculate_score", parameters |-> ps, answers |-> <<>>] :
        ps \in SessionParameters}
    \cup {[handler |-> "calculate_score",
           parameters |-> <<Param("sessionId", StoredSession)>>, answers |-> a] :
             a \in OverrideSamples}

NoEvent == [handler |-> "none", parameters |-> <<>>, answers |-> <<>>]
NoLocals == [none |-> TRUE]
NoResponse == [httpStatusCode |-> 0, body |-> [none |-> TRUE]]
NoTrace == [reads |-> <<>>, failed |-> FALSE, aggregated |-> FALSE]

\* the response built in the try block, and the one built in the except block
Success(body) == [httpStatusCode |-> 200, body |-> body]
Failure(error, message) ==
    [httpStatusCode |-> 500, body |-> [error |-> error, message |-> message]]

(***************************************************************************)
(* The answering workflow (outside the three lambda functions): it records *)
(* or overwrites the answer of the stored session for one metric.          *)
(***************************************************************************)
RecordAnswer(m, v) ==
    /\ clock < MaxWrites
    /\ clock' = clock + 1
    /\ assessment_results' =
          {ar \in assessment_results :
              ~(ar.session_id = StoredSession /\ ar.metric_id = m)}
          \cup {AnswerRow(StoredSession, m, v, clock + 1)}
    /\ UNCHANGED <<catalog, pc, event, local, response, trace, cvars>>

\* a caller sends an event to one of the lambda functions
Invoke(c, e) ==
    /\ pc[c] \in {"idle", "done"}
    /\ pc' = [pc EXCEPT ![c] = "invoked"]
    /\ event' = [event EXCEPT ![c] = e]
    /\ local' = [local EXCEPT ![c] = NoLocals]
    /\ response' = [response EXCEPT ![c] = NoResponse]
    /\ trace' = [trace EXCEPT ![c] = NoTrace]
    /\ UNCHANGED <<catalog, assessment_results, clock, cvars>>

\* the answers with each what-if answer put in place of the stored one, or added
RECURSIVE MergedAnswers(_, _, _)
MergedAnswers(answers, session_id, overrides) ==
    IF overrides = <<>> THEN answers
    ELSE LET o == Head(overrides)
             kept == {ar \in answers :
                        ~(ar.session_id = session_id /\ ar.metric_id = o.metricId)}
         IN  MergedAnswers(kept \cup {AnswerRow(session_id, o.metricId, o.value, 0)},
                           session_id, Tail(overrides))

\* a slip in calculate_scores: the what-if answers are saved with the stored ones
StoredAfterCalculateLeaky(answers, session_id, overrides) ==
    MergedAnswers(answers, session_id, overrides)

\* what calculate_scores writes to the table assessment_results: nothing
StoredAfterCalculate(answers, session_id, overrides) == answers

\* calculate_score.lambda_handler up to the statistics query of calculate_scores:
\* the parameter check, get_assessment_results, the early return, the rollup
CalcFetch(c, ok) ==
    /\ pc[c] = "invoked"
    /\ event[c].handler = "calculate_score"
    /\ LET session_id == ParamValue(event[c].parameters, "sessionId")
           results == get_assessment_results(catalog, assessment_results, session_id, ok)
       IN  IF Falsy(session_id)
           THEN /\ ok
                /\ response' = [response EXCEPT ![c] =
                      Failure("sessionId parameter is required",
                              "Failed to calculate scores")]
                /\ pc' = [pc EXCEPT ![c] = "done"]
                /\ UNCHANGED <<local, trace, assessment_results>>
           ELSE /\ trace' = [trace EXCEPT ![c].reads = Append(@, clock),
                                          ![c].failed = ~ok,
                                          ![c].aggregated = results # <<>>]
                /\ assessment_results' =
                      StoredAfterCalculate(assessment_results, session_id, event[c].answers)
                /\ IF results = <<>>
                   THEN /\ response' = [response EXCEPT ![c] =
                                           Success(EmptyReport(session_id))]
                        /\ pc' = [pc EXCEPT ![c] = "done"]
                        /\ UNCHANGED local
                   ELSE /\ local' = [local EXCEPT ![c] = Aggregates(results)]
                        /\ pc' = [pc EXCEPT ![c] = "count"]
                        /\ UNCHANGED response
    /\ UNCHANGED <<catalog, clock, event, cvars>>

\* the statistics query of calculate_scores, its return, and the response
CalcCount(c, ok) ==
    /\ pc[c] = "count"
    /\ LET session_id == ParamValue(event[c].parameters, "sessionId")
       IN  response' = [response EXCEPT ![c] =
              IF ok
              THEN Success(ScoreReport(session_id, local[c], CountActiveMetrics(catalog)))
              ELSE Failure("execute_statement failed", "Failed to calculate scores")]
    /\ trace' = [trace EXCEPT ![c].reads = Append(@, clock),
                              ![c].failed = @ \/ ~ok]
    /\ pc' = [pc EXCEPT ![c] = "done"]
    /\ local' = [local EXCEPT ![c] = NoLocals]
    /\ UNCHANGED <<catalog, assessment_results, clock, event, cvars>>

(***************************************************************************)
(* get_assessment_context.py: get_session_details and lambda_handler.      *)
(* Of the session, target, pillar and organization columns only the        *)
(* session id and status are kept; first_answer_at and last_answer_at are  *)
(* left out.                                                               *)
(***************************************************************************)
\* rows of ORDER BY ar.assessed_at DESC LIMIT 5
RecentLimit == 5

ContextEvents ==
    {[handler |-> "get_assessment_context", parameters |-> ps, answers |-> <<>>] :
        ps \in SessionParameters}

\* the records of session_query
SessionRecords(session_id) ==
    IF session_id = StoredSession
    THEN <<[id |-> session_id, status |-> "IN_PROGRESS"]>>
    ELSE <<>>

\* the dict returned when a query raised: {'error': str(e), 'session_id': ...}
SessionError(error, session_id) == [error |-> error, session_id |-> session_id]

\* the response of the try block: 200 if 'error' not in session_context else 404
ContextResponse(session_context) ==
    [httpStatusCode |-> IF "error" \in DOMAIN session_context THEN 404 ELSE 200,
     body |-> session_context]

\* session_data['progress']
Progress(total_metrics, answered_count) ==
    [total_metrics |-> total_metrics,
     answered_metrics |-> answered_count,
     remaining_metrics |-> total_metrics - answered_count,
     completion_percentage |->
         IF total_metrics > 0
         THEN Round(RMul(RDiv(Float(answered_count), Float(total_metrics)), Float(100)), 1)
         ELSE Float(0)]

\* the answers latest first
RECURSIVE LatestFirst(_)
LatestFirst(answers) ==
    IF answers = {} THEN <<>>
    ELSE LET top == CHOOSE a \in answers : \A b \in answers : b.assessed_at <= a.assessed_at
         IN  <<top>> \o LatestFirst(answers \ {top})

\* recent_answers: the last 5 answers of the session, joined with their metric
RecentAnswers(cat, answers, session_id) ==
    LET mine == {ar \in answers : ar.session_id = session_id}
        rows == LatestFirst(mine)
        n    == IF Len(rows) < RecentLimit THEN Len(rows) ELSE RecentLimit
    IN  [i \in 1..n |->
            [metric_id |-> rows[i].metric_id, value |-> Float(rows[i].value),
             assessed_at |-> rows[i].assessed_at,
             topic_id |-> cat.metrics[rows[i].metric_id].topic_id]]

\* one record of pillar_progress_query with its completion_percentage
PillarProgressEntry(cat, answers, session_id, p) ==
    LET in_pillar == {m \in Metrics : /\ cat.metrics[m].active
                                     /\ cat.topics[cat.metrics[m].topic_id].pillar_id = p}
        answered == Cardinality({ar \in answers : /\ ar.session_id = session_id
                                                  /\ ar.metric_id \in in_pillar})
        total == Cardinality(in_pillar)
    IN  [pillar_id |-> p, answered |-> answered, total |-> total,
         completion_percentage |->
             IF total > 0
             THEN Round(RMul(RDiv(Float(answered), Float(total)), Float(100)), 1)
             ELSE Float(0)]

\* pillar_progress: the active pillars in the order of their names
PillarProgress(cat, answers, session_id) ==
    LET active == SelectSeq(PillarOrder, LAMBDA p : cat.pillars[p].is_active)
    IN  [i \in 1..Len(active) |-> PillarProgressEntry(cat, answers, session_id, active[i])]

\* a query of get_session_details raised: the except block, then the response
ContextQueryFailed(c) ==
    /\ response' = [response EXCEPT ![c] =
          ContextResponse(SessionError("execute_statement failed",
                                       ParamValue(event[c].parameters, "sessionId")))]
    /\ pc' = [pc EXCEPT ![c] = "done"]
    /\ local' = [local EXCEPT ![c] = NoLocals]
    /\ trace' = [trace EXCEPT ![c].reads = Append(@, clock), ![c].failed = TRUE]

\* the query was answered: the locals change, the next query follows
ContextQueryDone(c, locals, next) ==
    /\ local' = [local EXCEPT ![c] = locals]
    /\ pc' = [pc EXCEPT ![c] = next]
    /\ trace' = [trace EXCEPT ![c].reads = Append(@, clock)]
    /\ UNCHANGED response

\* lambda_handler up to and with session_query
CtxSession(c, ok) ==
    /\ pc[c] = "invoked"
    /\ event[c].handler = "get_assessment_context"
    /\ LET session_id == ParamValue(event[c].parameters, "sessionId")
           records == SessionRecords(session_id)
       IN  IF Falsy(session_id)
           THEN /\ ok
                /\ response' = [response EXCEPT ![c] =
                      Failure("sessionId parameter is required",
                              "Failed to get assessment context")]
                /\ pc' = [pc EXCEPT ![c] = "done"]
                /\ UNCHANGED <<local, trace>>
           ELSE IF ~ok THEN ContextQueryFailed(c)
           ELSE IF records = <<>>
           THEN /\ response' = [response EXCEPT ![c] =
                      ContextResponse(SessionError("Assessment session not found",
                                                   session_id))]
                /\ pc' = [pc EXCEPT ![c] = "done"]
                /\ trace' = [trace EXCEPT ![c].reads = Append(@, clock)]
                /\ UNCHANGED local
           ELSE ContextQueryDone(c, [session |-> [id |-> session_id,
                                                  status |-> records[1].status]],
                                 "progress")
    /\ UNCHANGED <<catalog, assessment_results, clock, event, cvars>>

\* progress_query: COUNT(*) of the answers of the session
CtxProgress(c, ok) ==
    /\ pc[c] = "progress"
    /\ LET session_id == ParamValue(event[c].parameters, "sessionId")
           answered_count ==
               Cardinality({ar \in assessment_results : ar.session_id = session_id})
       IN  IF ~ok THEN ContextQueryFailed(c)
           ELSE ContextQueryDone(c, [session |-> local[c].session,
                                     answered_count |-> answered_count], "total")
    /\ UNCHANGED <<catalog, assessment_results, clock, event, cvars>>

\* total_metrics_query and session_data['progress']
CtxTotal(c, ok) ==
    /\ pc[c] = "total"
    /\ IF ~ok THEN ContextQueryFailed(c)
       ELSE ContextQueryDone(c,
               [session |-> local[c].session,
                progress |-> Progress(CountActiveMetrics(catalog), local[c].answered_count)],
               "recent")
    /\ UNCHANGED <<catalog, assessment_results, clock, event, cvars>>

\* recent_answers_query and session_data['recent_activity']
CtxRecent(c, ok) ==
    /\ pc[c] = "recent"
    /\ LET session_id == ParamValue(event[c].parameters, "sessionId")
       IN  IF ~ok THEN ContextQueryFailed(c)
           ELSE ContextQueryDone(c,
                   [session |-> local[c].session,
                    progress |-> local[c].progress,
                    recent_activity |->
                        RecentAnswers(catalog, assessment_results, session_id)],
                   "pillars")
    /\ UNCHANGED <<catalog, assessment_results, clock, event, cvars>>

\* pillar_progress_query, the return of session_data, and the response
CtxPillars(c, ok) ==
    /\ pc[c] = "pillars"
    /\ LET session_id == ParamValue(event[c].parameters, "sessionId")
       IN  IF ~ok THEN ContextQueryFailed(c)
           ELSE /\ response' = [response EXCEPT ![c] = ContextResponse(
                      [session |-> local[c].session,
                       progress |-> local[c].progress,
                       recent_activity |-> local[c].recent_activity,
                       pillar_progress |->
                           PillarProgress(catalog, assessment_results, session_id)])]
                /\ pc' = [pc EXCEPT ![c] = "done"]
                /\ local' = [local EXCEPT ![c] = NoLocals]
                /\ trace' = [trace EXCEPT ![c].reads = Append(@, clock)]
    /\ UNCHANGED <<catalog, assessment_results, clock, event, cvars>>

(***************************************************************************)
(* get_metric_details.py: get_metric_details and lambda_handler.           *)
(***************************************************************************)
UnknownMetric == "m9"

MetricParameters ==
    {<<>>} \cup {<<Param("metricId", v)>> : v \in {"", "m1", "m4", UnknownMetric}}

MetricEvents ==
    {[handler |-> "get_metric_details", parameters |-> ps, answers |-> <<>>] :
        ps \in MetricParameters}

\* the records of metric_query: WHERE m.id = :metric_id AND m.active = true
MetricRecords(cat, metric_id) ==
    IF metric_id \in Metrics /\ cat.metrics[metric_id].active
    THEN <<[id |-> metric_id, level |-> cat.metrics[metric_id].level,
            weight |-> Float(cat.metrics[metric_id].weight),
            topic_id |-> cat.metrics[metric_id].topic_id,
            pillar_id |-> cat.topics[cat.metrics[metric_id].topic_id].pillar_id]>>
    ELSE <<>>

\* what get_metric_details returns
get_metric_details(cat, metric_id, ok) ==
    IF ~ok THEN [error |-> "execute_statement failed", metric_id |-> metric_id]
    ELSE IF MetricRecords(cat, metric_id) = <<>>
    THEN [error |-> "Metric not found", metric_id |-> metric_id]
    ELSE LET record == MetricRecords(cat, metric_id)[1]
         IN  [metric |-> [id |-> metric_id, level |-> record.level,
                          weight |-> record.weight],
              topic |-> [id |-> record.topic_id],
              pillar |-> [id |-> record.pillar_id],
              guidance |-> [recommendation |-> record.level]]

\* get_metric_details.lambda_handler
MetricDetails(c, ok) ==
    /\ pc[c] = "invoked"
    /\ event[c].handler = "get_metric_details"
    /\ LET metric_id == ParamValue(event[c].parameters, "metricId")
           metric_data == get_metric_details(catalog, metric_id, ok)
       IN  IF Falsy(metric_id)
           THEN /\ ok
                /\ response' = [response EXCEPT ![c] =
                      Failure("metricId parameter is required",
                              "Failed to get metric details")]
                /\ UNCHANGED trace
           ELSE /\ response' = [response EXCEPT ![c] =
                      [httpStatusCode |-> IF "error" \in DOMAIN metric_data
                                          THEN 404 ELSE 200,
                       body |-> metric_data]]
                /\ trace' = [trace EXCEPT ![c].reads = Append(@, clock),
                                          ![c].failed = ~ok]
    /\ pc' = [pc EXCEPT ![c] = "done"]
    /\ UNCHANGED <<catalog, assessment_results, clock, event, local, cvars>>

NoOutput == [level |-> "", value |-> Float(0)]
CalcIdle == fn = "none" /\ score = Float(0) /\ items = <<>> /\ out = NoOutput

Init ==
    /\ catalog \in Catalogs
    /\ assessment_results \in InitialAnswers
    /\ clock = 0
    /\ pc = [c \in Callers |-> "idle"]
    /\ event = [c \in Callers |-> NoEvent]
    /\ local = [c \in Callers |-> NoLocals]
    /\ response = [c \in Callers |-> NoResponse]
    /\ trace = [c \in Callers |-> NoTrace]
    /\ CalcIdle

Next ==
    \/ \E m \in Metrics, v \in Values : RecordAnswer(m, v)
    \/ \E c \in Callers, e \in CalculateScoreEvents : Invoke(c, e)
    \/ \E c \in Callers, ok \in BOOLEAN : CalcFetch(c, ok)
    \/ \E c \in Callers, ok \in BOOLEAN : CalcCount(c, ok)

\* CalculateScores invoked by two callers while answers are recorded
Spec == Init /\ [][Next]_vars

\* the caller of the service specification
Agent == "c1"

ServiceNext ==
    \/ \E m \in Metrics, v \in Values : RecordAnswer(m, v)
    \/ \E e \in CalculateScoreEvents \cup ContextEvents \cup MetricEvents : Invoke(Agent, e)
    \/ \E ok \in BOOLEAN : CalcFetch(Agent, ok)
    \/ \E ok \in BOOLEAN : CalcCount(Agent, ok)
    \/ \E ok \in BOOLEAN : CtxSession(Agent, ok)
    \/ \E ok \in BOOLEAN : CtxProgress(Agent, ok)
    \/ \E ok \in BOOLEAN : CtxTotal(Agent, ok)
    \/ \E ok \in BOOLEAN : CtxRecent(Agent, ok)
    \/ \E ok \in BOOLEAN : CtxPillars(Agent, ok)
    \/ \E ok \in BOOLEAN : MetricDetails(Agent, ok)

\* the three lambda functions invoked by one caller while answers are recorded
ServiceSpec == Init /\ [][ServiceNext]_vars

(***************************************************************************)
(* The calculator specification: the static methods of MaturityCalculator  *)
(* applied to inputs drawn from bounded sets.                              *)
(***************************************************************************)
ScoreSamples == {Rat(k, 100) : k \in 0..MaxScoreHundredths}
ItemScores == {Float(2), Float(4), Rat(7, 2)}
ItemSamples == {[score |-> sc, weight |-> Float(w)] : sc \in ItemScores, w \in 0..MaxWeight}
ItemLists == UNION {[1..n -> ItemSamples] : n \in 0..MaxLen}

StoreIdle ==
    /\ catalog = Catalog(Metrics, UnitWeights(Metrics), BaseTopicWeights, BasePillarWeights)
    /\ assessment_results = {}
    /\ clock = 0
    /\ pc = [c \in Callers |-> "idle"]
    /\ event = [c \in Callers |-> NoEvent]
    /\ local = [c \in Callers |-> NoLocals]
    /\ response = [c \in Callers |-> NoResponse]
    /\ trace = [c \in Callers |-> NoTrace]

CalculatorInit ==
    /\ StoreIdle
    /\ fn = "none"
    /\ out = NoOutput
    /\ \/ score \in ScoreSamples /\ items = <<>>
       \/ score = Float(0) /\ items \in ItemLists

Apply(name, level, value) ==
    /\ fn = "none"
    /\ fn' = name
    /\ out' = [level |-> level, value |-> value]
    /\ UNCHANGED <<score, items, svars>>

GetMaturityLevel == Apply("get_maturity_level", get_maturity_level(score), score)
CalculateTopicScore == Apply("calculate_topic_score", "", calculate_topic_score(items))
CalculatePillarScore == Apply("calculate_pillar_score", "", calculate_pillar_score(items))
CalculateOverallScore == Apply("calculate_overall_score", "", calculate_overall_score(items))

CalculatorNext ==
    \/ GetMaturityLevel
    \/ CalculateTopicScore
    \/ CalculatePillarScore
    \/ CalculateOverallScore

CalculatorSpec == CalculatorInit /\ [][CalculatorNext]_vars

(***************************************************************************)
(* Properties of the calculator (checked under CalculatorSpec).            *)
(***************************************************************************)
\* C1: get_maturity_level maps a score of [0.0, 1.5) to INITIAL, of [1.5, 2.5) to
\* MANAGED, of [2.5, 3.5) to DEFINED and of [3.5, 5.0] to OPTIMIZING, lower bounds
\* inclusive, and every score >= 5.0 to OPTIMIZING.
C1_LevelByInterval ==
    fn = "get_maturity_level" =>
        LET h == score.n * 100
            d == score.d
        IN  /\ (0 <= h /\ h < 150 * d) => out.level = "INITIAL"
            /\ (150 * d <= h /\ h < 250 * d) => out.level = "MANAGED"
            /\ (250 * d <= h /\ h < 350 * d) => out.level = "DEFINED"
            /\ (350 * d <= h /\ h <= 500 * d) => out.level = "OPTIMIZING"
            /\ 500 * d <= h => out.level = "OPTIMIZING"
            /\ out.level \in {"INITIAL", "MANAGED", "DEFINED", "OPTIMIZING"}

\* C1 witness: the classifier has been applied to the boundary 1.5 and gave MANAGED
C1_Witness ==
    fn = "get_maturity_level" /\ score = Rat(3, 2) /\ out.level = "MANAGED"

\* the sum of the first n values of a list of numbers
RECURSIVE SumTo(_, _)
SumTo(vals, n) == IF n = 0 THEN Float(0) ELSE RAdd(SumTo(vals, n - 1), vals[n])

ItemWeights == [i \in 1..Len(items) |-> items[i].weight]
ItemScoreValues == [i \in 1..Len(items) |-> items[i].score]
ItemWeighted == [i \in 1..Len(items) |-> RMul(items[i].score, items[i].weight)]

\* C3: calculate_pillar_score and calculate_overall_score both return
\* sum(score*weight)/sum(weight) when sum(weight) > 0 and exactly 0.0, never a
\* division by zero, when the list is empty or every weight is 0.
C3_WeightedMean ==
    fn \in {"calculate_pillar_score", "calculate_overall_score"} =>
        LET sw  == SumTo(ItemWeights, Len(items))
            sws == SumTo(ItemWeighted, Len(items))
        IN  /\ out.value # ZeroDivisionError
            /\ sw.n > 0 => RMul(out.value, sw) = sws
            /\ sw.n = 0 => out.value = Float(0)
            /\ calculate_pillar_score(items) = calculate_overall_score(items)

\* C3 witness: topics (4.0, weight 2), (2.0, weight 1) give 10/3, reported as 3.33
C3_Witness ==
    /\ fn = "calculate_pillar_score"
    /\ items = <<[score |-> Float(4), weight |-> Float(2)],
                 [score |-> Float(2), weight |-> Float(1)]>>
    /\ out.value = Rat(10, 3)
    /\ Round(out.value, 2) = Rat(333, 100)

\* the list with its weights replaced by w
Reweighted(list, w) == [i \in 1..Len(list) |-> [score |-> list[i].score, weight |-> Float(w[i])]]

\* C4: the topic score is the arithmetic mean of the metric scores, 0.0 for no
\* metric scores, and no change of the metric weights changes it.
C4_TopicPlainMean ==
    fn = "calculate_topic_score" =>
        /\ items = <<>> => out.value = Float(0)
        /\ items # <<>> =>
              RMul(out.value, Float(Len(items))) = SumTo(ItemScoreValues, Len(items))
        /\ \A w \in [1..Len(items) -> 0..MaxWeight] :
              calculate_topic_score(Reweighted(items, w)) = out.value

\* C4 witness: two metrics of different scores and different weights
C4_Witness ==
    /\ fn = "calculate_topic_score"
    /\ items = <<[score |-> Float(4), weight |-> Float(2)],
                 [score |-> Float(2), weight |-> Float(1)]>>
    /\ out.value = Float(3)

(***************************************************************************)
(* Properties of CalculateScores (checked under Spec).                     *)
(***************************************************************************)
SessionOf(c) == ParamValue(event[c].parameters, "sessionId")

\* caller c holds the status-200 response of a calculate_score invocation
Reported(c) ==
    pc[c] = "done" /\ event[c].handler = "calculate_score"
    /\ response[c].httpStatusCode = 200

\* ... and the report is that of the stored session
ReportedStored(c) == Reported(c) /\ SessionOf(c) = StoredSession

\* caller c holds the status-200 response of a get_assessment_context invocation
ContextReported(c) ==
    pc[c] = "done" /\ event[c].handler = "get_assessment_context"
    /\ response[c].httpStatusCode = 200

\* every query of c's invocation was answered, and from the present database state
ReadNow(c) ==
    /\ ~trace[c].failed
    /\ trace[c].reads # <<>>
    /\ \A i \in 1..Len(trace[c].reads) : trace[c].reads[i] = clock

\* the stored answers of a session
AnswersOf(session_id) == {ar \in assessment_results : ar.session_id = session_id}

\* C2: for every answered (active) metric the metric score used in the rollup
\* equals the value recorded for the answer; the metric's level does not
\* determine it.
C2_ScoreIsRecordedValue ==
    \A c \in Callers :
        pc[c] = "count" =>
            \A i \in 1..Len(local[c].results) :
                LET r == local[c].results[i]
                    metrics == TopicMetrics(local[c].results, r.topic_id)
                IN  \A j \in 1..Len(metrics) :
                        (metrics[j].id = r.metric_id /\ catalog.metrics[r.metric_id].active)
                            => metrics[j].score = r.value

\* the score fields of the report of the code's rollup over a set of answers
ScoresOver(answers, session_id) ==
    LET results == ResultRowsFrom(catalog, answers, session_id, 1)
        agg == Aggregates(results)
    IN  IF results = <<>>
        THEN [overall_score |-> Float(0), maturity_level |-> "INITIAL",
              pillar_scores |-> <<>>, topic_scores |-> <<>>]
        ELSE [overall_score |-> Round(agg.overall_score, 2),
              maturity_level |-> agg.maturity_level,
              pillar_scores |-> agg.pillar_scores, topic_scores |-> agg.topic_scores]

ReportedScores(c) ==
    [overall_score |-> response[c].body.overall_score,
     maturity_level |-> response[c].body.maturity_level,
     pillar_scores |-> response[c].body.pillar_scores,
     topic_scores |-> response[c].body.topic_scores]

\* C5: with what-if answers in the request, the scores are those of the merged
\* answer set: each what-if value in place of the stored one, a what-if answer for
\* an unanswered metric added.  (Stated for a catalog whose metrics are all
\* active.)
C5_ScoresOverMergedAnswers ==
    \A c \in Callers :
        (Reported(c) /\ ReadNow(c) /\ event[c].answers # <<>>
         /\ \A m \in Metrics : catalog.metrics[m].active) =>
            ReportedScores(c) =
                ScoresOver(MergedAnswers(assessment_results, SessionOf(c), event[c].answers),
                           SessionOf(c))

\* C6: no invocation writes to the stored answers or keeps state: two reports of
\* the same session, each read from the present database state, are identical,
\* whether or not either request carried what-if answers and however the
\* invocations of the callers interleaved.
C6_NoLeak ==
    \A c \in Callers, d \in Callers :
        (Reported(c) /\ Reported(d) /\ ReadNow(c) /\ ReadNow(d)
         /\ SessionOf(c) = SessionOf(d)) =>
            response[c].body = response[d].body

\* C6 witness: a report with scores for a request without what-if answers and one
\* for a request with a what-if answer, of the same session and database state
C6_Witness ==
    /\ Reported("c1") /\ Reported("c2") /\ ReadNow("c1") /\ ReadNow("c2")
    /\ SessionOf("c1") = SessionOf("c2")
    /\ event["c1"].answers = <<>>
    /\ event["c2"].answers # <<>>
    /\ clock > 0
    /\ response["c1"].body.pillar_scores # <<>>
    /\ response["c1"].body = response["c2"].body

\* C7: for a session with zero answered metrics the report has overall score 0.0,
\* level INITIAL, no pillar scores and no topic scores, and no aggregation ran.
C7_EmptySession ==
    \A c \in Callers :
        (Reported(c) /\ trace[c].reads[1] = clock /\ AnswersOf(SessionOf(c)) = {}) =>
            /\ response[c].body.overall_score = Float(0)
            /\ response[c].body.maturity_level = "INITIAL"
            /\ response[c].body.pillar_scores = <<>>
            /\ response[c].body.topic_scores = <<>>
            /\ ~trace[c].aggregated

\* C7 witness: the report of the stored session while it has no answer
C7_Witness ==
    /\ Reported("c1") /\ ReadNow("c1")
    /\ SessionOf("c1") = StoredSession
    /\ AnswersOf(StoredSession) = {}
    /\ response["c1"].body.maturity_level = "INITIAL"

\* completionPercentage = answered/total*100 rounded to 1 decimal, 0 when total = 0
CompletionPercentage(answered, total) ==
    IF total > 0 THEN Round(Rat(answered * 100, total), 1) ELSE Float(0)

\* C8: the statistics of CalculateScores and of GetSessionContext are total =
\* number of active metrics, answered = number of answers of the session,
\* remaining = total - answered and completionPercentage = answered/total*100
\* rounded to 1 decimal, 0 when total = 0.  (Checked under ServiceSpec.)
C8_CompletionStatistics ==
    \A c \in Callers :
        LET total == CountActiveMetrics(catalog)
            answered == Cardinality(AnswersOf(SessionOf(c)))
        IN  /\ (ReportedStored(c) /\ ReadNow(c)) =>
                  LET st == response[c].body.statistics
                  IN  /\ st.total_metrics = total
                      /\ st.answered_metrics = answered
                      /\ st.completion_percentage = CompletionPercentage(answered, total)
            /\ (ContextReported(c) /\ ReadNow(c)) =>
                  LET pr == response[c].body.progress
                  IN  /\ pr.total_metrics = total
                      /\ pr.answered_metrics = answered
                      /\ pr.remaining_metrics = total - answered
                      /\ pr.completion_percentage = CompletionPercentage(answered, total)

\* C9: the statistics are not skipped for a session with zero answers: every
\* report has total_metrics = the count of active metrics, with answered_metrics
\* = 0 and completion_percentage = 0 when the session has no answer.
C9_StatisticsNotSkipped ==
    \A c \in Callers :
        (ReportedStored(c) /\ ReadNow(c)) =>
            /\ response[c].body.statistics.total_metrics = CountActiveMetrics(catalog)
            /\ AnswersOf(SessionOf(c)) = {} =>
                  /\ response[c].body.statistics.answered_metrics = 0
                  /\ response[c].body.statistics.completion_percentage = Float(0)

\* C10: an answer of an inactive metric counts neither in the scores nor in the
\* answered count, so answered <= total, remaining >= 0 and
\* completionPercentage <= 100 in every report of CalculateScores and of
\* GetSessionContext.  (Checked under ServiceSpec.)
C10_InactiveExcluded ==
    \A c \in Callers :
        LET active == {ar \in AnswersOf(SessionOf(c)) :
                          catalog.metrics[ar.metric_id].active}
        IN  /\ (ReportedStored(c) /\ ReadNow(c)) =>
                  LET st == response[c].body.statistics
                  IN  /\ st.answered_metrics = Cardinality(active)
                      /\ st.answered_metrics <= st.total_metrics
                      /\ RLe(st.completion_percentage, Float(100))
                      /\ ReportedScores(c) = ScoresOver(active, SessionOf(c))
            /\ (ContextReported(c) /\ ReadNow(c)) =>
                  LET pr == response[c].body.progress
                  IN  /\ pr.answered_metrics = Cardinality(active)
                      /\ pr.answered_metrics <= pr.total_metrics
                      /\ pr.remaining_metrics >= 0
                      /\ RLe(pr.completion_percentage, Float(100))

(***************************************************************************)
(* Properties of the three handlers (checked under ServiceSpec).           *)
(***************************************************************************)
\* the value of the identifier parameter the handler of c's event requires
IdentifierOf(c) ==
    ParamValue(event[c].parameters,
               IF event[c].handler = "get_metric_details" THEN "metricId" ELSE "sessionId")

\* c's event is for one of the handlers and its identifier is absent or empty
IdentifierMissing(c) ==
    /\ event[c].handler \in {"calculate_score", "get_assessment_context",
                             "get_metric_details"}
    /\ IdentifierOf(c) \in {None, ""}

\* C11: in each of the three handlers a request whose required identifier
\* (sessionId, or metricId for GetMetricDetails) is absent or empty is rejected
\* with an error result (status 500, error and message fields), and at no point
\* of the invocation is a query sent to the database.
C11_MissingIdentifierRejected ==
    \A c \in Callers :
        IdentifierMissing(c) =>
            /\ pc[c] \in {"invoked", "done"}
            /\ trace[c].reads = <<>>
            /\ local[c] = NoLocals
            /\ pc[c] = "done" =>
                  /\ response[c].httpStatusCode = 500
                  /\ DOMAIN response[c].body = {"error", "message"}

\* C11 witness: GetMetricDetails was invoked with an empty metricId and was
\* rejected without a query
C11_Witness ==
    /\ pc[Agent] = "done"
    /\ event[Agent].handler = "get_metric_details"
    /\ event[Agent].parameters = <<Param("metricId", "")>>
    /\ response[Agent].httpStatusCode = 500
    /\ trace[Agent].reads = <<>>

\* the identifier of c's event matches a record: an active metric, a session
IdentifierMatches(c) ==
    IF event[c].handler = "get_metric_details"
    THEN IdentifierOf(c) \in Metrics /\ catalog.metrics[IdentifierOf(c)].active
    ELSE SessionRecords(IdentifierOf(c)) # <<>>

\* c holds a NotFound result: status 404, an error field and the requested
\* identifier in metric_id / session_id
NotFoundResult(c) ==
    LET field == IF event[c].handler = "get_metric_details"
                 THEN "metric_id" ELSE "session_id"
    IN  /\ response[c].httpStatusCode = 404
        /\ DOMAIN response[c].body = {"error", field}
        /\ response[c].body[field] = IdentifierOf(c)

\* C12: GetMetricDetails with an identifier matching no active metric and
\* GetSessionContext with an identifier matching no session return the NotFound
\* result with the requested identifier, and the NotFound result is returned only
\* then: never when the identifier matches a record, never for a failed query.
C12_NotFoundDistinct ==
    \A c \in Callers :
        (/\ pc[c] = "done"
         /\ event[c].handler \in {"get_metric_details", "get_assessment_context"}
         /\ ~IdentifierMissing(c)) =>
            /\ (~trace[c].failed /\ ~IdentifierMatches(c)) => NotFoundResult(c)
            /\ NotFoundResult(c) => (~IdentifierMatches(c) /\ ~trace[c].failed)

\* C13: when a query of an invocation of any of the three handlers failed, the
\* handler still returns a structured response, the response has an error field
\* and a non-success status, and it is never a status-200 result.
C13_FailureReported ==
    \A c \in Callers :
        (pc[c] = "done" /\ trace[c].failed) =>
            /\ response[c] # NoResponse
            /\ response[c].httpStatusCode \in {404, 500}
            /\ "error" \in DOMAIN response[c].body

(***************************************************************************)
(* Properties of the rollup of CalculateScores (checked under Spec).       *)
(***************************************************************************)
\* the topics in the order of their names
TopicOrder == <<"t1", "t2", "t3">>

\* the topics of a pillar that have no row in the results, each as a topic of
\* score 0.0 with its full weight
UnansweredTopics(results, pillar_id) ==
    LET tids == SelectSeq(TopicOrder,
                    LAMBDA t : /\ catalog.topics[t].pillar_id = pillar_id
                               /\ \A i \in 1..Len(results) : results[i].topic_id # t)
    IN  [j \in 1..Len(tids) |->
            [score |-> Float(0), weight |-> Float(catalog.topics[tids[j]].weight)]]

\* the present rows of the results query for the session of c
ResultsNow(c) == ResultRowsFrom(catalog, assessment_results, SessionOf(c), 1)

\* C14: a topic with zero answered metrics has score 0.0 and takes part in the
\* weighted mean of its pillar with that score and its full weight: every pillar
\* score of a report is the weighted mean over all topics of the pillar, the
\* unanswered ones included.  (Stated for a catalog whose metrics are all active.)
C14_UnansweredTopicCounts ==
    \A c \in Callers :
        (ReportedStored(c) /\ ReadNow(c)
         /\ \A m \in Metrics : catalog.metrics[m].active) =>
            \A i \in 1..Len(response[c].body.pillar_scores) :
                LET entry == response[c].body.pillar_scores[i]
                    all_topics == TopicsList(ResultsNow(c), entry.id)
                                    \o UnansweredTopics(ResultsNow(c), entry.id)
                IN  entry.score = Round(calculate_pillar_score(all_topics), 2)

\* a score is 0.0 or within [1.0, 5.0]
ZeroOrOnScale(x) == x = Float(0) \/ (RLe(Float(1), x) /\ RLe(x, Float(5)))

\* a score is within [0.0, 5.0]
InClassifierRange(x) == RLe(Float(0), x) /\ RLe(x, Float(5))

\* C15: for every set of stored answers and every assignment of non-negative
\* weights, every topic score and every pillar score of a report is 0.0 or within
\* [1.0, 5.0], the overall score is within [0.0, 5.0], and the value the
\* classifier is applied to is within [0.0, 5.0].
C15_ScoreBounds ==
    \A c \in Callers :
        /\ pc[c] = "count" =>
              /\ InClassifierRange(local[c].overall_score)
              /\ \A i \in 1..Len(local[c].pillar_scores) :
                     ZeroOrOnScale(local[c].pillar_scores[i].score)
        /\ Reported(c) =>
              /\ InClassifierRange(response[c].body.overall_score)
              /\ \A i \in 1..Len(response[c].body.topic_scores) :
                     ZeroOrOnScale(response[c].body.topic_scores[i].score)
              /\ \A i \in 1..Len(response[c].body.pillar_scores) :
                     ZeroOrOnScale(response[c].body.pillar_scores[i].score)

\* C15 witness: a report with a pillar score of 1.0, a pillar score of 5.0 and
\* the overall score 5.0, classified OPTIMIZING, from a catalog with zero weights
C15_Witness ==
    /\ Reported("c1")
    /\ catalog = ExtremeCatalog
    /\ Len(response["c1"].body.pillar_scores) = 2
    /\ response["c1"].body.pillar_scores[1].score = Float(1)
    /\ response["c1"].body.pillar_scores[2].score = Float(5)
    /\ response["c1"].body.overall_score = Float(5)
    /\ response["c1"].body.maturity_level = "OPTIMIZING"

(***************************************************************************)
(* Properties of an invocation that runs while answers are recorded        *)
(* (checked under ServiceSpec).                                            *)
(***************************************************************************)
\* every row the table assessment_results can hold
StoreRows ==
    {AnswerRow(StoredSession, m, v, InitialTime(m)) : m \in Metrics, v \in StoredValues}
    \cup {AnswerRow(StoredSession, m, v, k) : m \in Metrics, v \in Values, k \in 1..MaxWrites}

\* every state the table can be in: at most one answer per metric
StoreStates ==
    {S \in SUBSET StoreRows :
        \A a \in S, b \in S : a.metric_id = b.metric_id => a = b}

\* the report of CalculateScores agrees with the store state S
CalculatedOver(c, S) ==
    /\ ReportedScores(c) = ScoresOver(S, SessionOf(c))
    /\ response[c].body.statistics.answered_metrics = Cardinality(S)

\* the context of GetSessionContext agrees with the store state S
ContextOver(c, S) ==
    /\ response[c].body.progress.answered_metrics = Cardinality(S)
    /\ response[c].body.recent_activity = RecentAnswers(catalog, S, SessionOf(c))
    /\ response[c].body.pillar_progress = PillarProgress(catalog, S, SessionOf(c))

\* C16: while answers are recorded during an invocation, all values of its
\* result correspond to one state of the store: the scores and the answered count
\* of CalculateScores, and the progress counts, the recent activity and the
\* per-pillar progress of GetSessionContext.
C16_OneStoreState ==
    \A c \in Callers :
        /\ (ReportedStored(c) /\ ~trace[c].failed) =>
              \E S \in StoreStates : CalculatedOver(c, S)
        /\ (ContextReported(c) /\ ~trace[c].failed) =>
              \E S \in StoreStates : ContextOver(c, S)

\* the pillar scores of the rollup before any rounding, with the pillar weights
UnroundedPillarScores(results) ==
    LET pids == PillarIds(results)
    IN  [i \in 1..Len(pids) |->
            [score |-> calculate_pillar_score(TopicsList(results, pids[i])),
             weight |-> PillarWeight(results, pids[i])]]

\* C17: rounding to 2 decimals is applied to the fields of the report only: the
\* overall rollup consumes the unrounded pillar scores and the classifier the
\* unrounded overall score, so the overall score and the maturity level of a
\* report are those obtained with no intermediate score rounded.
C17_RoundingForDisplayOnly ==
    \A c \in Callers :
        (ReportedStored(c) /\ ReadNow(c) /\ ResultsNow(c) # <<>>) =>
            LET overall == calculate_overall_score(UnroundedPillarScores(ResultsNow(c)))
            IN  /\ response[c].body.overall_score = Round(overall, 2)
                /\ response[c].body.maturity_level = get_maturity_level(overall)

=============================================================================
